---- MODULE Spec2Model ----
(***************************************************************************)
(* Orchestrator.run_diagnostic_workflow (src/agents/orchestrator.py) as a  *)
(* state machine: the shared DiagnosticState, the loop counter, the       *)
(* position in the workflow, and the Human Review Gate's input parsing.    *)
(* The Planner, Executor, Replanner and Synthesizer agents are called      *)
(* through their update contract; what they return is chosen from small    *)
(* sets.  PreprocessSpec is ManualSearchTool._preprocess_query            *)
(* (src/manual/manual_search_tool.py) applied to bounded queries, and      *)
(* RunsSpec is two calls of run_diagnostic_workflow on one event loop.     *)
(***************************************************************************)
EXTENDS Integers, Sequences, FiniteSets

VARIABLES input, plan, past_steps, response, ready_for_synthesis,
          current_iteration, pc, replan_output, human_decision, synthesizer_output,
          invoked, directives, edits, reprompts, replan_signalled, forced

(* ManualSearchTool._preprocess_query: its argument, its local and the     *)
(* position in its loop over the dictionary                                *)
VARIABLES query, processed_query, rule

(* Two calls of run_diagnostic_workflow on one event loop: the local state *)
(* dictionary of each call and where each call stands                      *)
VARIABLES states, ctl

workflow_vars == <<input, plan, past_steps, response, ready_for_synthesis,
                   current_iteration, pc, replan_output, human_decision,
                   synthesizer_output, invoked, directives, edits, reprompts,
                   replan_signalled, forced>>

preprocess_vars == <<query, processed_query, rule>>

runs_vars == <<states, ctl>>

vars == <<input, plan, past_steps, response, ready_for_synthesis,
          current_iteration, pc, replan_output, human_decision, synthesizer_output,
          invoked, directives, edits, reprompts, replan_signalled, forced,
          query, processed_query, rule, states, ctl>>

state_vars == <<input, plan, past_steps, response, ready_for_synthesis>>

----------------------------------------------------------------------------
(* Bounds of the model *)

MaxPlanLen == 2

MaxNewSteps == 1

MaxSteps == 5

MaxEdits == 1

MaxReprompts == 1

----------------------------------------------------------------------------
(* Program constants *)

max_iterations == 5

PlannerFailed == "The planner could not create a valid plan. Please try a different query."

Aborted == "Workflow aborted by human."

SynthesisError == "An error occurred during final synthesis."

Inconclusive == "The diagnostic process completed without a final synthesized response. Please review the past steps for information."

----------------------------------------------------------------------------
(* Texts are sequences of one-character strings, so that strip, lower and  *)
(* split act on them as they do in the program.                            *)

SeqsUpTo(S, n) == UNION {[1..k -> S] : k \in 0..n}

RECURSIVE LStrip(_)
LStrip(s) == IF s # <<>> /\ Head(s) = " " THEN LStrip(Tail(s)) ELSE s

RECURSIVE RStrip(_)
RStrip(s) == IF s # <<>> /\ s[Len(s)] = " " THEN RStrip(SubSeq(s, 1, Len(s) - 1)) ELSE s

Strip(s) == RStrip(LStrip(s))

UpperToLower ==
    [A |-> "a", B |-> "b", C |-> "c", D |-> "d", E |-> "e", F |-> "f", G |-> "g",
     H |-> "h", I |-> "i", J |-> "j", K |-> "k", L |-> "l", M |-> "m", N |-> "n",
     O |-> "o", P |-> "p", Q |-> "q", R |-> "r", S |-> "s", T |-> "t", U |-> "u",
     V |-> "v", W |-> "w", X |-> "x", Y |-> "y", Z |-> "z"]

Lower(s) == [i \in 1..Len(s) |-> IF s[i] \in DOMAIN UpperToLower THEN UpperToLower[s[i]] ELSE s[i]]

RECURSIVE SplitComma(_)
SplitComma(s) ==
    IF \A i \in 1..Len(s) : s[i] # ","
    THEN <<s>>
    ELSE LET k == CHOOSE i \in 1..Len(s) : s[i] = "," /\ \A j \in 1..(i - 1) : s[j] # ","
         IN  <<SubSeq(s, 1, k - 1)>> \o SplitComma(SubSeq(s, k + 1, Len(s)))

RECURSIVE StripNonEmpty(_)
StripNonEmpty(segs) ==
    IF segs = <<>> THEN <<>>
    ELSE IF Strip(Head(segs)) # <<>>
         THEN <<Strip(Head(segs))>> \o StripNonEmpty(Tail(segs))
         ELSE StripNonEmpty(Tail(segs))

ParseNewPlanKeepsBlanks(new_plan_str_raw) == SplitComma(Strip(new_plan_str_raw))

ParseNewPlan(new_plan_str_raw) == StripNonEmpty(SplitComma(Strip(new_plan_str_raw)))

ClassifyChoiceCaseSensitive(choice_raw) ==
    LET choice == Strip(choice_raw)
    IN  IF choice \in {<<"c">>, <<"c","o","n","t","i","n","u","e">>} THEN "continue"
        ELSE IF choice \in {<<"s">>, <<"s","y","n","t","h","e","s","i","z","e">>} THEN "synthesize"
        ELSE IF choice \in {<<"e">>, <<"e","d","i","t">>} THEN "edit"
        ELSE IF choice \in {<<"q">>, <<"q","u","i","t">>} THEN "quit"
        ELSE "invalid"

ClassifyChoice(choice_raw) ==
    LET choice == Lower(Strip(choice_raw))
    IN  IF choice \in {<<"c">>, <<"c","o","n","t","i","n","u","e">>} THEN "continue"
        ELSE IF choice \in {<<"s">>, <<"s","y","n","t","h","e","s","i","z","e">>} THEN "synthesize"
        ELSE IF choice \in {<<"e">>, <<"e","d","i","t">>} THEN "edit"
        ELSE IF choice \in {<<"q">>, <<"q","u","i","t">>} THEN "quit"
        ELSE "invalid"

----------------------------------------------------------------------------
(* Inputs *)

Queries == {"why is pump 3 overheating"}

PlannerSteps == {<<"x">>}

ReplanSteps == {<<"y">>}

Results == {"ok"}

ReplanResponses == {"", "direct answer"}

SynthResponses == {"", "final answer"}

EditInputs ==
    { <<>>, <<" ", ",", " ">>, <<",", ",">>, <<"z">>, <<" ", "z", " ">>,
      <<"z", ",", " ", "w">>, <<",", "z", " ", "w", ",", ",">> }

ChoiceInputs ==
    { <<"c">>, <<" ","C"," ">>, <<"c","o","n","t","i","n","u","e">>,
      <<"s">>, <<"S","Y","N","T","H","E","S","I","Z","E">>,
      <<"e">>, <<"E","d","i","t"," ">>,
      <<"q">>, <<" ","Q","u","i","t">>,
      <<>>, <<" ">>, <<"y">>, <<"c","c">>, <<"c"," ","q">>, <<"q","u","i","t","!">> }

NoUpdate == [keys |-> {}, ready_for_synthesis |-> FALSE, response |-> "", plan |-> <<>>]

NoDecision == [action |-> "none", new_plan |-> <<>>]

NoSynthesis == [keys |-> {"not called"}, response |-> ""]

PlannerOutputs ==
    {[keys |-> {}, plan |-> <<>>]} \cup
    {[keys |-> {"plan"}, plan |-> p] : p \in SeqsUpTo(PlannerSteps, MaxPlanLen)}

ExecutorOutputs(step) ==
    {[keys |-> {}, past_steps |-> <<>>]} \cup
    {[keys |-> {"past_steps"}, past_steps |-> << <<step, r>> >>] : r \in Results}

ReplanOutputs ==
    {[keys |-> k,
      ready_for_synthesis |-> IF "ready_for_synthesis" \in k THEN r ELSE FALSE,
      response |-> IF "response" \in k THEN t ELSE "",
      plan |-> IF "plan" \in k THEN n ELSE <<>>] :
        k \in SUBSET {"ready_for_synthesis", "response", "plan"},
        r \in BOOLEAN, t \in ReplanResponses, n \in SeqsUpTo(ReplanSteps, MaxNewSteps)}

SynthesizerOutputs ==
    {[keys |-> {}, response |-> ""]} \cup
    {[keys |-> {"response"}, response |-> t] : t \in SynthResponses}

Get(out, key, default) == IF key \in out.keys THEN out[key] ELSE default

Agents == {"planner", "executor", "replanner", "gate", "synthesizer"}

Called(a) == invoked \cup {a}

----------------------------------------------------------------------------
(* State after construction of the DiagnosticState (lines 97-103) *)

----------------------------------------------------------------------------
(* ManualSearchTool._preprocess_query (src/manual/manual_search_tool.py)   *)

MaxWords == 3

(* The dictionary, in its insertion order *)
query_mapping ==
    <<
       [abbr |-> <<"t","e","m","p">>,
        full_form |-> <<"t","e","m","p","e","r","a","t","u","r","e">>],
       [abbr |-> <<"p","r","e","s","s">>,
        full_form |-> <<"p","r","e","s","s","u","r","e">>],
       [abbr |-> <<"v","i","b">>,
        full_form |-> <<"v","i","b","r","a","t","i","o","n">>],
       [abbr |-> <<"r","p","m">>,
        full_form |-> <<"r","o","t","a","t","i","o","n","s"," ","p","e","r"," ","m","i","n","u","t","e">>],
       [abbr |-> <<"p","s","i">>,
        full_form |-> <<"p","r","e","s","s","u","r","e">>],
       [abbr |-> <<"e","r","r">>,
        full_form |-> <<"e","r","r","o","r">>],
       [abbr |-> <<"t","r","o","u","b","l","e","s","h","o","o","t">>,
        full_form |-> <<"t","r","o","u","b","l","e","s","h","o","o","t","i","n","g"," ","d","i","a","g","n","o","s","i","s"," ","p","r","o","b","l","e","m">>],
       [abbr |-> <<"f","i","x">>,
        full_form |-> <<"r","e","p","a","i","r"," ","s","o","l","u","t","i","o","n"," ","t","r","o","u","b","l","e","s","h","o","o","t","i","n","g">>],
       [abbr |-> <<"a","l","a","r","m">>,
        full_form |-> <<"e","r","r","o","r"," ","a","l","a","r","m"," ","w","a","r","n","i","n","g">>],
       [abbr |-> <<"f","a","u","l","t">>,
        full_form |-> <<"e","r","r","o","r"," ","f","a","u","l","t"," ","p","r","o","b","l","e","m">>],
       [abbr |-> <<"m","a","i","n","t","e","n","a","n","c","e">>,
        full_form |-> <<"m","a","i","n","t","e","n","a","n","c","e"," ","s","e","r","v","i","c","e"," ","r","e","p","a","i","r">>],
       [abbr |-> <<"c","a","l","i","b","r","a","t","i","o","n">>,
        full_form |-> <<"c","a","l","i","b","r","a","t","i","o","n"," ","a","d","j","u","s","t","m","e","n","t"," ","s","e","t","u","p">>],
       [abbr |-> <<"i","n","s","t","a","l","l","a","t","i","o","n">>,
        full_form |-> <<"i","n","s","t","a","l","l","a","t","i","o","n"," ","s","e","t","u","p"," ","c","o","n","f","i","g","u","r","a","t","i","o","n">>]
    >>

(* \w of the regular expressions: letters, digits and the underscore *)
WordChars ==
    DOMAIN UpperToLower \cup {UpperToLower[c] : c \in DOMAIN UpperToLower}
        \cup {"0", "1", "2", "3", "4", "5", "6", "7", "8", "9", "_"}

IsWordChar(s, k) == k \in 1..Len(s) /\ s[k] \in WordChars

AtWordBoundaryAlways(s, k) == TRUE

(* \b between positions k and k + 1 of s *)
AtWordBoundary(s, k) == IsWordChar(s, k) # IsWordChar(s, k + 1)

(* The pattern \b abbr \b matches s at position i *)
MatchesAt(s, i, abbr) ==
    /\ i + Len(abbr) - 1 <= Len(s)
    /\ SubSeq(s, i, i + Len(abbr) - 1) = abbr
    /\ AtWordBoundary(s, i - 1)
    /\ AtWordBoundary(s, i + Len(abbr) - 1)

(* re.sub: the matches are found from left to right, without overlap, and  *)
(* the replacement is not scanned again                                    *)
RECURSIVE ReSubFrom(_, _, _, _)
ReSubFrom(abbr, full_form, s, i) ==
    IF i > Len(s) THEN <<>>
    ELSE IF MatchesAt(s, i, abbr)
         THEN full_form \o ReSubFrom(abbr, full_form, s, i + Len(abbr))
         ELSE <<s[i]>> \o ReSubFrom(abbr, full_form, s, i + 1)

ReSub(abbr, full_form, s) == ReSubFrom(abbr, full_form, s, 1)

Vocabulary ==
    { <<"c","h","e","c","k">>,
      <<"n","o","w">>,
      <<"t","e","m","p">>,
      <<"t","e","m","p","e","r","a","t","u","r","e">>,
      <<"a","l","a","r","m">>,
      <<"P","S","I">>,
      <<"p","r","e","f","i","x">> }

Separators == {<<" ">>, <<"-">>}

RECURSIVE QueriesOf(_)
QueriesOf(n) ==
    IF n = 1 THEN Vocabulary
    ELSE {q \o sep \o w : q \in QueriesOf(n - 1), sep \in Separators, w \in Vocabulary}

(* Every abbreviation alone, inside a longer word, and next to a digit *)
RuleProbes ==
    UNION {{query_mapping[r].abbr,
            query_mapping[r].abbr \o <<"s">>,
            <<"x">> \o query_mapping[r].abbr,
            query_mapping[r].abbr \o <<"2">>,
            query_mapping[r].abbr \o <<".">>} : r \in 1..Len(query_mapping)}

QueryInputs == UNION {QueriesOf(n) : n \in 1..MaxWords} \cup RuleProbes

PreprocessIdle == query = <<>> /\ processed_query = <<>> /\ rule = 0

----------------------------------------------------------------------------
(* Two calls of run_diagnostic_workflow scheduled on one event loop *)

Runs == {1, 2}

(* Lines 97-103: the state dictionary a call starts with *)
NewState(initial_query) ==
    [input |-> initial_query, plan |-> <<>>, past_steps |-> <<>>, response |-> "",
     ready_for_synthesis |-> FALSE]

NewCtl ==
    [pc |-> "planning", current_iteration |-> 0, replan_output |-> NoUpdate,
     human_decision |-> NoDecision, edits |-> 0]

RunsIdle ==
    /\ states \in [Runs -> {NewState(q) : q \in Queries}]
    /\ ctl = [r \in Runs |-> NewCtl]

----------------------------------------------------------------------------
WorkflowInit ==
    /\ input \in Queries
    /\ plan = <<>>
    /\ past_steps = <<>>
    /\ response = ""
    /\ ready_for_synthesis = FALSE
    /\ current_iteration = 0
    /\ pc = "planning"
    /\ replan_output = NoUpdate
    /\ human_decision = NoDecision
    /\ synthesizer_output = NoSynthesis
    /\ invoked = {}
    /\ directives = {}
    /\ edits = 0
    /\ reprompts = 0
    /\ replan_signalled = FALSE
    /\ forced = FALSE

Init == WorkflowInit /\ PreprocessIdle /\ RunsIdle

----------------------------------------------------------------------------
(* The pieces of run_diagnostic_workflow that compute a new value *)

LoopCondOffByOne(rfs, resp, it) == ~rfs /\ resp = "" /\ it <= max_iterations

LoopCondIgnoresResponse(rfs, resp, it) == ~rfs /\ it < max_iterations

LoopCondUncapped(rfs, resp, it) == ~rfs /\ resp = ""

LoopCond(rfs, resp, it) == ~rfs /\ resp = "" /\ it < max_iterations

NextIterationStuck(it) == it

NextIteration(it) == it + 1

NoPlanUnchecked(p) == FALSE

NoPlan(p) == p = <<>>

NoStepsLeft(p) == p = <<>>

ReadyAfterEmptyPlanUnset(rfs) == rfs

ReadyAfterEmptyPlan(rfs) == TRUE

AppendPastStepsOverwrite(ps, out) == Get(out, "past_steps", <<>>)

AppendPastSteps(ps, out) == ps \o Get(out, "past_steps", <<>>)

RemoveExecutedStep(p) == Tail(p)

MergeReadyDefaultFalse(rfs, out) == Get(out, "ready_for_synthesis", FALSE)

MergeReady(rfs, out) == IF "ready_for_synthesis" \in out.keys THEN out.ready_for_synthesis ELSE rfs

MergeResponse(resp, out) == IF "response" \in out.keys THEN out.response ELSE resp

AddsSteps(out) == "plan" \in out.keys /\ out.plan # <<>>

MergePlanPrepends(p, out) == IF AddsSteps(out) THEN out.plan \o p ELSE p

MergePlan(p, out) == IF AddsSteps(out) THEN p \o out.plan ELSE p

ForcesSynthesisNever(rfs, resp, out) == FALSE

ForcesSynthesis(rfs, resp, out) ==
    ~AddsSteps(out) /\ "plan" \in out.keys /\ out.plan = <<>> /\ ~rfs /\ resp = ""

NeedsHumanReviewIgnoresResponse(rfs, resp) == ~rfs

NeedsHumanReview(rfs, resp) == ~rfs /\ resp = ""

IterationAfterEdit(it) == 0

PlanAfterEditMerged(p, new_plan) == p \o new_plan

PlanAfterEdit(p, new_plan) == new_plan

ResponseAfterQuitUnset(resp) == resp

ResponseAfterQuit(resp) == Aborted

ReadyAfterSynthesizeUnset(rfs) == rfs

ReadyAfterSynthesize(rfs) == TRUE

ShouldSynthesizeIgnoresResponse(rfs, resp) == rfs

ShouldSynthesize(rfs, resp) == rfs /\ resp = ""

SynthesizedResponseNoDefault(out) == Get(out, "response", "")

SynthesizedResponse(out) == Get(out, "response", SynthesisError)

----------------------------------------------------------------------------
(* Lines 106-117: the Planner step *)

PlannerStep ==
    /\ pc = "planning"
    /\ UNCHANGED <<preprocess_vars, runs_vars>>
    /\ \E planner_output \in PlannerOutputs :
         LET p == Get(planner_output, "plan", <<>>)
         IN  /\ plan' = p
             /\ IF NoPlan(p)
                THEN /\ response' = PlannerFailed
                     /\ pc' = "done"
                ELSE /\ response' = response
                     /\ pc' = "while"
    /\ current_iteration' = 0
    /\ invoked' = Called("planner")
    /\ UNCHANGED <<human_decision, synthesizer_output, input,
                   past_steps, ready_for_synthesis, replan_output,
                   directives, edits, reprompts, replan_signalled, forced>>

(* Lines 118-126: the loop test holds; count the pass and force synthesis   *)
(* on an empty plan                                                        *)
LoopEnter ==
    /\ pc = "while"
    /\ UNCHANGED <<preprocess_vars, runs_vars>>
    /\ LoopCond(ready_for_synthesis, response, current_iteration)
    /\ current_iteration' = NextIteration(current_iteration)
    /\ IF NoStepsLeft(plan)
       THEN /\ ready_for_synthesis' = ReadyAfterEmptyPlan(ready_for_synthesis)
            /\ forced' = TRUE
            /\ pc' = "replan"
       ELSE /\ UNCHANGED <<ready_for_synthesis, forced>>
            /\ pc' = "exec"
    /\ UNCHANGED <<human_decision, synthesizer_output, input,
                   plan, past_steps, response, replan_output,
                   invoked, directives, edits, reprompts, replan_signalled>>

(* Line 118: the loop test fails *)
LoopExit ==
    /\ pc = "while"
    /\ UNCHANGED <<preprocess_vars, runs_vars>>
    /\ ~LoopCond(ready_for_synthesis, response, current_iteration)
    /\ pc' = "finish"
    /\ UNCHANGED <<human_decision, synthesizer_output, input,
                   plan, past_steps, response, ready_for_synthesis,
                   current_iteration, replan_output,
                   invoked, directives, edits, reprompts, replan_signalled, forced>>

(* Lines 129-130: call the Executor on the head step and append its record *)
ExecutorStep ==
    /\ pc = "exec"
    /\ UNCHANGED <<preprocess_vars, runs_vars>>
    /\ \E executor_output \in ExecutorOutputs(Head(plan)) :
         past_steps' = AppendPastSteps(past_steps, executor_output)
    /\ invoked' = Called("executor")
    /\ pc' = "pop"
    /\ UNCHANGED <<human_decision, synthesizer_output, input,
                   plan, response, ready_for_synthesis, current_iteration,
                   replan_output, directives, edits, reprompts, replan_signalled, forced>>

(* Line 133: remove the executed step *)
PopStep ==
    /\ pc = "pop"
    /\ UNCHANGED <<preprocess_vars, runs_vars>>
    /\ plan' = RemoveExecutedStep(plan)
    /\ pc' = "replan"
    /\ UNCHANGED <<human_decision, synthesizer_output, input,
                   past_steps, response, ready_for_synthesis, current_iteration,
                   replan_output, invoked, directives, edits, reprompts,
                   replan_signalled, forced>>

(* Line 138: call the Replanner; MaxSteps caps the steps it adds in a run  *)
ReplanStep ==
    /\ pc = "replan"
    /\ UNCHANGED <<preprocess_vars, runs_vars>>
    /\ \E out \in ReplanOutputs :
         /\ out.plan = <<>> \/ Len(past_steps) + Len(plan) + Len(out.plan) <= MaxSteps
         /\ replan_output' = out
         /\ replan_signalled' =
              (replan_signalled
                 \/ ("ready_for_synthesis" \in out.keys /\ out.ready_for_synthesis)
                 \/ ("response" \in out.keys /\ out.response # ""))
    /\ invoked' = Called("replanner")
    /\ pc' = "merge"
    /\ UNCHANGED <<human_decision, synthesizer_output, input,
                   plan, past_steps, response, ready_for_synthesis,
                   current_iteration, directives, edits, reprompts, forced>>

(* Lines 141-154: merge the Replanner's update, then decide on human review *)
MergeStep ==
    /\ pc = "merge"
    /\ UNCHANGED <<preprocess_vars, runs_vars>>
    /\ LET rfs1  == MergeReady(ready_for_synthesis, replan_output)
           resp1 == MergeResponse(response, replan_output)
           force == ForcesSynthesis(rfs1, resp1, replan_output)
           rfs2  == IF force THEN TRUE ELSE rfs1
       IN  /\ ready_for_synthesis' = rfs2
           /\ response' = resp1
           /\ plan' = MergePlan(plan, replan_output)
           /\ forced' = (forced \/ force)
           /\ IF NeedsHumanReview(rfs2, resp1)
              THEN /\ pc' = "gate"
                   /\ invoked' = Called("gate")
              ELSE /\ pc' = "while"
                   /\ invoked' = invoked
    /\ replan_output' = NoUpdate
    /\ UNCHANGED <<human_decision, synthesizer_output, input,
                   past_steps, current_iteration, directives, edits,
                   reprompts, replan_signalled>>

(* Lines 72-76 and 89-90: a line read at the gate's prompt is none of the   *)
(* four directives                                                         *)
HumanInvalid ==
    /\ pc = "gate"
    /\ UNCHANGED <<preprocess_vars, runs_vars>>
    /\ reprompts < MaxReprompts
    /\ \E choice_raw \in ChoiceInputs : ClassifyChoice(choice_raw) = "invalid"
    /\ reprompts' = reprompts + 1
    /\ UNCHANGED <<input, plan, past_steps, response, ready_for_synthesis,
                   current_iteration, pc, replan_output, human_decision,
                   synthesizer_output, invoked, directives, edits,
                   replan_signalled, forced>>

(* What the gate returns for a directive other than edit *)
GateReturns(action) ==
    /\ pc = "gate"
    /\ UNCHANGED <<preprocess_vars, runs_vars>>
    /\ \E choice_raw \in ChoiceInputs : ClassifyChoice(choice_raw) = action
    /\ human_decision' = [action |-> action, new_plan |-> <<>>]
    /\ directives' = directives \cup {action}
    /\ reprompts' = 0
    /\ pc' = "decide"
    /\ UNCHANGED <<input, plan, past_steps, response, ready_for_synthesis,
                   current_iteration, replan_output, synthesizer_output,
                   invoked, edits, replan_signalled, forced>>

(* Lines 77-78 *)
HumanContinue == GateReturns("continue")

(* Lines 79-80 *)
HumanSynthesize == GateReturns("synthesize")

(* Lines 87-88 *)
HumanQuit == GateReturns("quit")

(* Lines 81-86: edit, with a second line read for the new plan *)
HumanEdit ==
    /\ pc = "gate"
    /\ UNCHANGED <<preprocess_vars, runs_vars>>
    /\ edits < MaxEdits
    /\ \E choice_raw \in ChoiceInputs : ClassifyChoice(choice_raw) = "edit"
    /\ \E new_plan_str_raw \in EditInputs :
         human_decision' = [action |-> "edit", new_plan |-> ParseNewPlan(new_plan_str_raw)]
    /\ edits' = edits + 1
    /\ directives' = directives \cup {"edit"}
    /\ reprompts' = 0
    /\ pc' = "decide"
    /\ UNCHANGED <<input, plan, past_steps, response, ready_for_synthesis,
                   current_iteration, replan_output, synthesizer_output,
                   invoked, replan_signalled, forced>>

(* Lines 156-167: act on the gate's decision *)
ApplyDecision ==
    /\ pc = "decide"
    /\ UNCHANGED <<preprocess_vars, runs_vars>>
    /\ response' = IF human_decision.action = "quit" THEN ResponseAfterQuit(response) ELSE response
    /\ ready_for_synthesis' =
         IF human_decision.action = "synthesize"
         THEN ReadyAfterSynthesize(ready_for_synthesis) ELSE ready_for_synthesis
    /\ plan' = IF human_decision.action = "edit"
               THEN PlanAfterEdit(plan, human_decision.new_plan) ELSE plan
    /\ current_iteration' =
         IF human_decision.action = "edit"
         THEN IterationAfterEdit(current_iteration) ELSE current_iteration
    /\ pc' = IF human_decision.action = "quit" THEN "finish" ELSE "while"
    /\ human_decision' = NoDecision
    /\ UNCHANGED <<input, past_steps, replan_output, synthesizer_output,
                   invoked, directives, edits, reprompts, replan_signalled, forced>>

(* Lines 170-174: the Synthesizer step *)
SynthesizerStep ==
    /\ pc = "finish"
    /\ UNCHANGED <<preprocess_vars, runs_vars>>
    /\ ShouldSynthesize(ready_for_synthesis, response)
    /\ \E out \in SynthesizerOutputs :
         /\ synthesizer_output' = out
         /\ response' = SynthesizedResponse(out)
    /\ invoked' = Called("synthesizer")
    /\ pc' = "done"
    /\ UNCHANGED <<input, plan, past_steps, ready_for_synthesis, current_iteration,
                   replan_output, human_decision, directives, edits, reprompts,
                   replan_signalled, forced>>

(* Lines 175-177: no synthesis and no response *)
InconclusiveStep ==
    /\ pc = "finish"
    /\ UNCHANGED <<preprocess_vars, runs_vars>>
    /\ ~ShouldSynthesize(ready_for_synthesis, response)
    /\ response = ""
    /\ response' = Inconclusive
    /\ pc' = "done"
    /\ UNCHANGED <<input, plan, past_steps, ready_for_synthesis, current_iteration,
                   replan_output, human_decision, synthesizer_output, invoked,
                   directives, edits, reprompts, replan_signalled, forced>>

(* Lines 169-180 with a response already set: return it *)
ReturnStep ==
    /\ pc = "finish"
    /\ UNCHANGED <<preprocess_vars, runs_vars>>
    /\ ~ShouldSynthesize(ready_for_synthesis, response)
    /\ response # ""
    /\ pc' = "done"
    /\ UNCHANGED <<input, plan, past_steps, response, ready_for_synthesis,
                   current_iteration, replan_output, human_decision,
                   synthesizer_output, invoked, directives, edits, reprompts,
                   replan_signalled, forced>>

Next ==
    \/ PlannerStep
    \/ LoopEnter
    \/ LoopExit
    \/ ExecutorStep
    \/ PopStep
    \/ ReplanStep
    \/ MergeStep
    \/ HumanInvalid
    \/ HumanContinue
    \/ HumanSynthesize
    \/ HumanEdit
    \/ HumanQuit
    \/ ApplyDecision
    \/ SynthesizerStep
    \/ InconclusiveStep
    \/ ReturnStep

Spec == Init /\ [][Next]_vars

(* The run is scheduled until it returns, and the human eventually answers *)
(* the gate's prompt with one of the four directives.                      *)
HumanAnswers == HumanContinue \/ HumanSynthesize \/ HumanEdit \/ HumanQuit

FairSpec == Spec /\ WF_vars(Next) /\ WF_vars(HumanAnswers)

----------------------------------------------------------------------------
(* _preprocess_query as a state machine: lower-case the query, then apply  *)
(* the dictionary's rules one after the other                              *)

PreprocessInit ==
    /\ WorkflowInit
    /\ RunsIdle
    /\ query \in QueryInputs
    /\ processed_query = <<>>
    /\ rule = 0

(* Line 88 *)
LowerQuery ==
    /\ rule = 0
    /\ processed_query' = Lower(query)
    /\ rule' = 1
    /\ UNCHANGED <<query, workflow_vars, runs_vars>>

(* Lines 89-90: one turn of the loop over query_mapping.items() *)
ApplyRule ==
    /\ rule \in 1..Len(query_mapping)
    /\ processed_query' =
         ReSub(query_mapping[rule].abbr, query_mapping[rule].full_form, processed_query)
    /\ rule' = rule + 1
    /\ UNCHANGED <<query, workflow_vars, runs_vars>>

PreprocessNext == LowerQuery \/ ApplyRule

PreprocessSpec == PreprocessInit /\ [][PreprocessNext]_vars

Returned == rule = Len(query_mapping) + 1

----------------------------------------------------------------------------
(* Two concurrent calls.  A call runs on the event loop without            *)
(* interruption until it awaits the human's input (lines 74 and 83) or     *)
(* returns; the input itself is read in a worker thread.                   *)

AwaitPoints == {"gate", "edit_line", "done"}

(* The updates and the edit lines of the two calls: a part of those of the *)
(* single call, to keep the product of the two calls small                 *)
RunsPlannerOutputs == {o \in PlannerOutputs : Len(o.plan) <= 1}

RunsExecutorOutputs(step) == {o \in ExecutorOutputs(step) : "past_steps" \in o.keys}

RunsReplanOutputs == {o \in ReplanOutputs : "plan" \notin o.keys}

RunsEditInputs == {raw \in EditInputs : Len(ParseNewPlan(raw)) <= 1}

(* One step of the synchronous code of a call, on its state s and its      *)
(* position c: the set of the outcomes                                     *)
AgentSteps(s, c) ==
    CASE c.pc = "planning" ->
           { LET p == Get(out, "plan", <<>>)
             IN  IF NoPlan(p)
                 THEN <<[s EXCEPT !.plan = p, !.response = PlannerFailed],
                        [c EXCEPT !.pc = "done"]>>
                 ELSE <<[s EXCEPT !.plan = p], [c EXCEPT !.pc = "while"]>>
             : out \in RunsPlannerOutputs }
      [] c.pc = "while" ->
           IF LoopCond(s.ready_for_synthesis, s.response, c.current_iteration)
           THEN IF NoStepsLeft(s.plan)
                THEN {<<[s EXCEPT !.ready_for_synthesis = ReadyAfterEmptyPlan(@)],
                        [c EXCEPT !.current_iteration = NextIteration(@), !.pc = "replan"]>>}
                ELSE {<<s, [c EXCEPT !.current_iteration = NextIteration(@), !.pc = "exec"]>>}
           ELSE {<<s, [c EXCEPT !.pc = "finish"]>>}
      [] c.pc = "exec" ->
           { <<[s EXCEPT !.past_steps = AppendPastSteps(@, out)], [c EXCEPT !.pc = "pop"]>>
             : out \in RunsExecutorOutputs(Head(s.plan)) }
      [] c.pc = "pop" ->
           {<<[s EXCEPT !.plan = RemoveExecutedStep(@)], [c EXCEPT !.pc = "replan"]>>}
      [] c.pc = "replan" ->
           { <<s, [c EXCEPT !.replan_output = out, !.pc = "merge"]>>
             : out \in RunsReplanOutputs }
      [] c.pc = "merge" ->
           LET rfs1  == MergeReady(s.ready_for_synthesis, c.replan_output)
               resp1 == MergeResponse(s.response, c.replan_output)
               rfs2  == IF ForcesSynthesis(rfs1, resp1, c.replan_output) THEN TRUE ELSE rfs1
           IN  {<<[s EXCEPT !.ready_for_synthesis = rfs2,
                            !.response = resp1,
                            !.plan = MergePlan(@, c.replan_output)],
                  [c EXCEPT !.replan_output = NoUpdate,
                            !.pc = IF NeedsHumanReview(rfs2, resp1) THEN "gate" ELSE "while"]>>}
      [] c.pc = "decide" ->
           LET d == c.human_decision
           IN  {<<[s EXCEPT !.response = IF d.action = "quit" THEN ResponseAfterQuit(@) ELSE @,
                            !.ready_for_synthesis =
                                IF d.action = "synthesize" THEN ReadyAfterSynthesize(@) ELSE @,
                            !.plan = IF d.action = "edit" THEN PlanAfterEdit(@, d.new_plan) ELSE @],
                  [c EXCEPT !.current_iteration =
                                IF d.action = "edit" THEN IterationAfterEdit(@) ELSE @,
                            !.human_decision = NoDecision,
                            !.pc = IF d.action = "quit" THEN "finish" ELSE "while"]>>}
      [] c.pc = "finish" ->
           IF ShouldSynthesize(s.ready_for_synthesis, s.response)
           THEN { <<[s EXCEPT !.response = SynthesizedResponse(out)], [c EXCEPT !.pc = "done"]>>
                  : out \in SynthesizerOutputs }
           ELSE IF s.response = ""
                THEN {<<[s EXCEPT !.response = Inconclusive], [c EXCEPT !.pc = "done"]>>}
                ELSE {<<s, [c EXCEPT !.pc = "done"]>>}
      [] OTHER -> {}

(* The call runs until its next await or its return *)
RECURSIVE RunToAwait(_, _)
RunToAwait(s, c) ==
    IF c.pc \in AwaitPoints THEN {<<s, c>>}
    ELSE UNION {RunToAwait(t[1], t[2]) : t \in AgentSteps(s, c)}

InputBlocksEventLoopDirect == TRUE

(* Lines 74 and 83 read the line through asyncio.to_thread, so the event   *)
(* loop is not held while a call waits for the human                       *)
InputBlocksEventLoop == FALSE

Suspended(r) == ctl[r].pc \in {"gate", "edit_line"}

EventLoopFree(r) == \A o \in Runs \ {r} : ~(Suspended(o) /\ InputBlocksEventLoop)

(* The event loop runs call r up to its next await *)
Resume(r) ==
    /\ ctl[r].pc \notin AwaitPoints
    /\ EventLoopFree(r)
    /\ \E t \in RunToAwait(states[r], ctl[r]) :
         /\ states' = [states EXCEPT ![r] = t[1]]
         /\ ctl' = [ctl EXCEPT ![r] = t[2]]
    /\ UNCHANGED <<workflow_vars, preprocess_vars>>

(* Lines 74-88: the human of call r types a directive *)
Answer(r) ==
    /\ ctl[r].pc = "gate"
    /\ \E choice_raw \in ChoiceInputs :
         LET action == ClassifyChoice(choice_raw)
         IN  /\ action # "invalid"
             /\ action = "edit" => ctl[r].edits < MaxEdits
             /\ ctl' = [ctl EXCEPT ![r] =
                          IF action = "edit"
                          THEN [@ EXCEPT !.pc = "edit_line"]
                          ELSE [@ EXCEPT !.pc = "decide",
                                         !.human_decision =
                                             [action |-> action, new_plan |-> <<>>]]]
    /\ UNCHANGED <<states, workflow_vars, preprocess_vars>>

(* Lines 83-86: the human of call r types the new plan *)
AnswerEditLine(r) ==
    /\ ctl[r].pc = "edit_line"
    /\ \E new_plan_str_raw \in RunsEditInputs :
         ctl' = [ctl EXCEPT ![r] =
                   [@ EXCEPT !.pc = "decide",
                             !.edits = @ + 1,
                             !.human_decision =
                                 [action |-> "edit",
                                  new_plan |-> ParseNewPlan(new_plan_str_raw)]]]
    /\ UNCHANGED <<states, workflow_vars, preprocess_vars>>

RunsNext == \E r \in Runs : Resume(r) \/ Answer(r) \/ AnswerEditLine(r)

RunsSpec == Init /\ [][RunsNext]_vars

(* Call 2 is scheduled and its human answers; nothing is assumed of the    *)
(* human of call 1                                                         *)
RunsFairSpec ==
    /\ RunsSpec
    /\ WF_vars(Resume(2))
    /\ WF_vars(Answer(2) \/ AnswerEditLine(2))

----------------------------------------------------------------------------
TypeOK ==
    /\ input \in Queries
    /\ response \in {"", PlannerFailed, Aborted, SynthesisError, Inconclusive}
                      \cup ReplanResponses \cup SynthResponses
    /\ ready_for_synthesis \in BOOLEAN
    /\ current_iteration \in 0..max_iterations
    /\ pc \in {"planning", "while", "exec", "pop", "replan", "merge", "gate",
               "decide", "finish", "done"}
    /\ replan_output \in ReplanOutputs
    /\ invoked \subseteq Agents
    /\ edits \in 0..MaxEdits
    /\ reprompts \in 0..MaxReprompts

----------------------------------------------------------------------------
(* Steps that invoke a component *)

GateEntered == pc # "gate" /\ pc' = "gate"

InvokesComponent == PlannerStep \/ ExecutorStep \/ ReplanStep \/ SynthesizerStep \/ GateEntered

SynthesizerReturnedEmpty ==
    "response" \in synthesizer_output.keys /\ synthesizer_output.response = ""

----------------------------------------------------------------------------
(* C1: with finitely many edit directives and every gate prompt eventually *)
(* answered by a valid directive, run_diagnostic_workflow returns.         *)
C1_Terminates == <>(pc = "done")

C1_Witness ==
    /\ pc = "done"
    /\ {"continue", "edit"} \subseteq directives
    /\ current_iteration = max_iterations
    /\ response = Inconclusive

(* C2: the response returned on any terminal path is non-empty, unless the *)
(* Synthesizer itself returned an empty response.                          *)
C2_NonEmptyResponse == pc = "done" /\ ~SynthesizerReturnedEmpty => response # ""

C2_Witness ==
    /\ pc = "done"
    /\ "synthesizer" \in invoked
    /\ "response" \notin synthesizer_output.keys
    /\ response = SynthesisError

(* C3: an empty plan from the Planner (or no plan key) ends the run at     *)
(* once with the planner-failure text, and no other component is invoked.  *)
C3_PlannerFailure ==
    [][/\ (pc = "planning" /\ plan' = <<>>)
          => (pc' = "done" /\ response' = PlannerFailed /\ invoked' = {"planner"})
       /\ (pc = "done" /\ plan = <<>> /\ past_steps = <<>> /\ invoked = {"planner"})
          => UNCHANGED vars]_vars

C3_Witness == pc = "done" /\ response = PlannerFailed /\ invoked = {"planner"}

(* C4: the quit directive makes the run return the aborted text, nothing   *)
(* is invoked after it, and the aborted text is set only at the gate.      *)
C4_Quit ==
    [][/\ ("quit" \in directives
             => /\ ~InvokesComponent
                /\ pc' \in {"finish", "done"}
                /\ response' = Aborted
                /\ UNCHANGED <<plan, past_steps, ready_for_synthesis>>)
       /\ (response' = Aborted /\ response # Aborted
             => pc = "decide" /\ human_decision.action = "quit")]_vars

C4_Witness ==
    /\ pc = "done"
    /\ "quit" \in directives
    /\ response = Aborted
    /\ current_iteration >= 2
    /\ plan # <<>>

(* C5: an edit directive with step list P makes plan exactly P and the    *)
(* counter 0, and leaves past_steps, input, response and the flag alone,   *)
(* so the loop test holds again; P holds trimmed, non-empty steps.         *)
C5_EditReplacesPlan ==
    [][/\ (pc = "decide" /\ human_decision.action = "edit")
          => /\ plan' = human_decision.new_plan
             /\ current_iteration' = 0
             /\ UNCHANGED <<past_steps, input, response, ready_for_synthesis>>
             /\ pc' = "while"
             /\ ~ready_for_synthesis' /\ response' = "" /\ current_iteration' < max_iterations
       /\ (pc = "gate" /\ human_decision'.action = "edit")
          => \A i \in 1..Len(human_decision'.new_plan) :
               LET step == human_decision'.new_plan[i]
               IN  /\ step # <<>>
                   /\ step[1] # " " /\ step[Len(step)] # " "
                   /\ \A j \in 1..Len(step) : step[j] # ","]_vars

C5_Witness ==
    /\ pc = "done"
    /\ edits = 1
    /\ Len(past_steps) = max_iterations + 2
    /\ current_iteration = max_iterations

OnlyContinue == directives \subseteq {"continue"}

(* C6 as stated: a Replanner that never signals and a human who always     *)
(* continues give exactly max_iterations passes and the inconclusive text. *)
C6_Original ==
    (pc = "done" /\ "replanner" \in invoked /\ OnlyContinue /\ ~replan_signalled)
      => /\ current_iteration = max_iterations
         /\ response = Inconclusive
         /\ "synthesizer" \notin invoked

(* C6 amended: the same, provided neither forced-synthesis rule fires (the *)
(* plan is non-empty at the start of every pass and the Replanner never    *)
(* returns an empty plan list).                                            *)
C6_Amended ==
    (pc = "done" /\ "replanner" \in invoked /\ OnlyContinue /\ ~replan_signalled /\ ~forced)
      => /\ current_iteration = max_iterations
         /\ response = Inconclusive
         /\ "synthesizer" \notin invoked

C6_Witness ==
    /\ pc = "done"
    /\ directives = {"continue"}
    /\ ~replan_signalled
    /\ ~forced
    /\ current_iteration = max_iterations
    /\ response = Inconclusive

(* C7 as stated: an Executor invocation appends exactly one pair for the   *)
(* head step, whatever the Executor returns, and only then is the head     *)
(* removed.                                                                *)
C7_Original ==
    [][/\ pc = "exec"
          => /\ Len(past_steps') = Len(past_steps) + 1
             /\ SubSeq(past_steps', 1, Len(past_steps)) = past_steps
             /\ past_steps'[Len(past_steps')][1] = Head(plan)
             /\ plan' = plan
       /\ pc = "pop"
          => /\ plan' = Tail(plan)
             /\ past_steps' = past_steps
             /\ past_steps # <<>>
             /\ past_steps[Len(past_steps)][1] = Head(plan)]_vars

(* C8: past_steps only grows at its end.                                   *)
C8_AppendOnly ==
    [][/\ Len(past_steps) <= Len(past_steps')
       /\ SubSeq(past_steps', 1, Len(past_steps)) = past_steps]_vars

C8_Witness ==
    /\ pc = "done"
    /\ "edit" \in directives
    /\ Len(past_steps) >= 3
    /\ past_steps[1][1] # past_steps[Len(past_steps)][1]

(* C9: the gate is entered exactly when, after the merge of the            *)
(* Replanner's update, the flag is false and the response empty; once      *)
(* either is set the loop is left without another prompt.                  *)
C9_GateIff ==
    [][/\ pc = "merge" => (pc' = "gate" <=> (~ready_for_synthesis' /\ response' = ""))
       /\ GateEntered => pc = "merge"
       /\ (pc \in {"while", "finish"} /\ (ready_for_synthesis \/ response # ""))
          => pc' \in {"finish", "done"}]_vars

C9_Witness ==
    /\ pc = "done"
    /\ "gate" \in invoked
    /\ current_iteration >= 2
    /\ response \in ReplanResponses

NotActionable ==
    /\ pc = "merge"
    /\ IF "ready_for_synthesis" \in replan_output.keys
       THEN ~replan_output.ready_for_synthesis ELSE ~ready_for_synthesis
    /\ IF "response" \in replan_output.keys
       THEN replan_output.response = "" ELSE response = ""
    /\ ~("plan" \in replan_output.keys /\ replan_output.plan # <<>>)

(* C10 as stated: every Replanner update that is not actionable, with an   *)
(* empty plan list or with the keys left out, forces ready_for_synthesis   *)
(* and skips the gate.                                                     *)
C10_Original ==
    [][NotActionable => (ready_for_synthesis' /\ pc' # "gate")]_vars

(* C10 amended: a Replanner update that is not actionable forces           *)
(* ready_for_synthesis, skips the gate and leads to the Synthesizer when   *)
(* it carries a plan key with an empty list; when the plan key is left out *)
(* nothing is forced and the gate is consulted.                            *)
C10_Amended ==
    [][/\ NotActionable
          => IF "plan" \in replan_output.keys
             THEN /\ ready_for_synthesis' /\ response' = "" /\ pc' = "while"
                  /\ ~LoopCond(ready_for_synthesis', response', current_iteration')
             ELSE ~ready_for_synthesis' /\ pc' = "gate"
       /\ (pc = "while" /\ ready_for_synthesis /\ response = "") => pc' = "finish"
       /\ (pc = "finish" /\ ready_for_synthesis /\ response = "")
          => "synthesizer" \in invoked']_vars

C10_Witness ==
    /\ pc = "done"
    /\ current_iteration = 1
    /\ edits = 0
    /\ directives = {}
    /\ forced
    /\ ~replan_signalled
    /\ plan # <<>>
    /\ "synthesizer" \in invoked

EmptyPlanPassStart ==
    /\ pc = "while"
    /\ ~ready_for_synthesis /\ response = "" /\ current_iteration < max_iterations
    /\ plan = <<>>

(* C11 as stated: a pass that starts with an empty plan sets               *)
(* ready_for_synthesis and invokes neither the Executor nor the Replanner: *)
(* it goes straight to the review check, skips the gate and leaves the     *)
(* loop for synthesis.                                                     *)
C11_Original ==
    [][/\ EmptyPlanPassStart => (ready_for_synthesis' /\ pc' \notin {"exec", "replan"})
       /\ (pc = "replan" /\ ready_for_synthesis) => ~ReplanStep]_vars

(* C11 amended: a pass that starts with an empty plan sets                 *)
(* ready_for_synthesis and skips the Executor, but the Replanner is still  *)
(* invoked and its update merged; the gate is skipped and the loop left    *)
(* unless that update sets the flag back to false with no response and no  *)
(* empty plan list, in which case the gate is consulted.                   *)
C11_Amended ==
    [][/\ EmptyPlanPassStart
          => /\ ready_for_synthesis'
             /\ pc' = "replan"
             /\ UNCHANGED <<plan, past_steps, response>>
       /\ (pc = "replan" /\ ready_for_synthesis)
          => /\ pc' = "merge"
             /\ "replanner" \in invoked'
             /\ UNCHANGED <<plan, past_steps, response, ready_for_synthesis>>
       /\ (pc = "merge" /\ ready_for_synthesis)
          => LET out == replan_output
                 resets == "ready_for_synthesis" \in out.keys /\ ~out.ready_for_synthesis
                 resp == IF "response" \in out.keys THEN out.response ELSE response
                 emptylist == "plan" \in out.keys /\ out.plan = <<>>
             IN  /\ past_steps' = past_steps
                 /\ IF resets /\ resp = "" /\ ~emptylist
                    THEN ~ready_for_synthesis' /\ pc' = "gate"
                    ELSE /\ pc' = "while"
                         /\ ready_for_synthesis' \/ response' # ""]_vars

C11_Witness ==
    /\ pc = "gate"
    /\ forced
    /\ current_iteration = 2
    /\ edits = 0
    /\ past_steps # <<>>

(* C12 as stated: ready_for_synthesis is monotonic, once true it is never  *)
(* set back to false in the rest of the run.                               *)
C12_Original == [][ready_for_synthesis => ready_for_synthesis']_vars

(* C12 amended: ready_for_synthesis goes from true back to false only in   *)
(* the merge of a pass that started with an empty plan, when the           *)
(* Replanner's update carries ready_for_synthesis = false; once it is true *)
(* after a merge, or set by the human, it stays true.                      *)
C12_Amended ==
    [][(ready_for_synthesis /\ ~ready_for_synthesis')
         => /\ pc = "merge"
            /\ plan = <<>>
            /\ forced
            /\ "ready_for_synthesis" \in replan_output.keys
            /\ ~replan_output.ready_for_synthesis]_vars

C12_Witness ==
    /\ pc = "while"
    /\ forced
    /\ ~ready_for_synthesis
    /\ response = ""
    /\ plan # <<>>
    /\ "continue" \in directives

(* C13: the Synthesizer is invoked at most once per run, only after the    *)
(* loop has been left and only with ready_for_synthesis true and response  *)
(* empty; a run that leaves the loop in such a state invokes it, and       *)
(* nothing happens after its invocation.                                   *)
C13_SynthesizerOnce ==
    [][/\ (synthesizer_output' # synthesizer_output
             \/ ("synthesizer" \notin invoked /\ "synthesizer" \in invoked'))
          => /\ pc = "finish"
             /\ ready_for_synthesis
             /\ response = ""
             /\ "synthesizer" \notin invoked
             /\ synthesizer_output = NoSynthesis
       /\ (pc = "finish" /\ ready_for_synthesis /\ response = "")
          => /\ "synthesizer" \in invoked'
             /\ synthesizer_output' # NoSynthesis
             /\ pc' = "done"
       /\ "synthesizer" \in invoked => UNCHANGED vars]_vars

C13_Witness ==
    /\ pc = "done"
    /\ "synthesizer" \in invoked
    /\ synthesizer_output.response = "final answer"
    /\ response = "final answer"
    /\ "synthesize" \in directives

(* C14 as stated: a Synthesizer update that carries no usable response     *)
(* (no response key, or an empty response) makes the run return exactly    *)
(* the synthesis-error text, never the inconclusive text or an empty       *)
(* response.                                                               *)
C14_Original ==
    (/\ pc = "done"
     /\ "synthesizer" \in invoked
     /\ ("response" \notin synthesizer_output.keys \/ synthesizer_output.response = ""))
    => response = SynthesisError

(* C15: when the Replanner's update carries a non-empty step list, the     *)
(* plan after the merge is the pending plan followed by that list; the     *)
(* Executor always runs the head of the plan, only the head is removed,    *)
(* and the plan changes nowhere else except by the Planner and an edit.    *)
C15_AppendsNewSteps ==
    [][/\ (pc = "merge" /\ "plan" \in replan_output.keys /\ replan_output.plan # <<>>)
          => plan' = plan \o replan_output.plan
       /\ pc = "pop" => plan' = Tail(plan)
       /\ past_steps' # past_steps
          => /\ pc = "exec"
             /\ plan # <<>>
             /\ plan' = plan
             /\ \A i \in (Len(past_steps) + 1)..Len(past_steps') :
                    past_steps'[i][1] = Head(plan)
       /\ plan' # plan
          => \/ pc \in {"planning", "pop"}
             \/ pc = "merge" /\ "plan" \in replan_output.keys
             \/ pc = "decide" /\ human_decision.action = "edit"]_vars

C15_Witness ==
    /\ pc = "gate"
    /\ past_steps # <<>>
    /\ plan = << <<"x">>, <<"y">> >>
    /\ edits = 0

(* The lines of ChoiceInputs that name no directive, whatever their case   *)
(* and surrounding blanks                                                  *)
UnrecognisedChoices ==
    { <<>>, <<" ">>, <<"y">>, <<"c","c">>, <<"c"," ","q">>, <<"q","u","i","t","!">> }

(* C17: an input line that is none of the four directives (compared        *)
(* without case after trimming) changes nothing and makes the gate prompt  *)
(* again; continue leaves the DiagnosticState and the counter as they      *)
(* are; the gate returns exactly one of the four actions.                  *)
C17_GateFrame ==
    /\ \A choice_raw \in ChoiceInputs :
           (ClassifyChoice(choice_raw) = "invalid") <=> (choice_raw \in UnrecognisedChoices)
    /\ ClassifyChoice(<<" ","C"," ">>) = "continue"
    /\ ClassifyChoice(<<"S","Y","N","T","H","E","S","I","Z","E">>) = "synthesize"
    /\ ClassifyChoice(<<"E","d","i","t"," ">>) = "edit"
    /\ ClassifyChoice(<<" ","Q","u","i","t">>) = "quit"
    /\ [][/\ (pc = "gate" /\ pc' = "gate")
             => /\ reprompts' = reprompts + 1
                /\ UNCHANGED <<input, plan, past_steps, response, ready_for_synthesis,
                               current_iteration, human_decision, directives, invoked>>
          /\ (pc = "gate" /\ pc' # "gate")
             => /\ pc' = "decide"
                /\ human_decision'.action \in {"continue", "synthesize", "edit", "quit"}
                /\ directives' = directives \cup {human_decision'.action}
                /\ UNCHANGED <<input, plan, past_steps, response, ready_for_synthesis,
                               current_iteration>>
          /\ (pc = "decide" /\ human_decision.action = "continue")
             => /\ pc' = "while"
                /\ UNCHANGED <<input, plan, past_steps, response, ready_for_synthesis,
                               current_iteration>>]_vars

C17_Witness ==
    /\ pc = "gate"
    /\ reprompts = MaxReprompts
    /\ "continue" \in directives
    /\ current_iteration >= 2

(* C19: once the response is set (by the Replanner in particular, also     *)
(* when the same update sets the flag or adds steps) it is never changed   *)
(* and no component is invoked again: the run only leaves the loop and     *)
(* returns it.                                                             *)
C19_ResponseEndsRun ==
    [][/\ response # ""
          => /\ ~InvokesComponent
             /\ response' = response
             /\ pc \in {"while", "finish"}
             /\ pc' \in {"finish", "done"}
       /\ (pc = "merge" /\ "response" \in replan_output.keys /\ replan_output.response # "")
          => /\ response' = replan_output.response
             /\ pc' = "while"]_vars

C19_Witness ==
    /\ pc = "done"
    /\ response = "direct answer"
    /\ ready_for_synthesis
    /\ ~forced
    /\ plan # <<>>
    /\ "synthesizer" \notin invoked

(* C20: the counter stays within 0..max_iterations, grows by one at the    *)
(* start of each pass and is reset only by an edit; a pass is Executor     *)
(* (at most once), then Replanner (once), then the gate (at most once).    *)
C20_IterationBound ==
    /\ [](current_iteration \in 0..max_iterations)
    /\ [][/\ current_iteration' # current_iteration
             => \/ pc = "while" /\ current_iteration' = current_iteration + 1
                \/ /\ pc = "decide" /\ human_decision.action = "edit"
                   /\ current_iteration' = 0
          /\ (pc = "while" /\ pc' # "finish")
             => /\ pc' = (IF plan = <<>> THEN "replan" ELSE "exec")
                /\ current_iteration' = current_iteration + 1
          /\ pc = "exec" => pc' = "pop" /\ "executor" \in invoked'
          /\ pc = "pop" => pc' = "replan"
          /\ pc = "replan" => pc' = "merge" /\ "replanner" \in invoked'
          /\ pc = "merge" => pc' \in {"gate", "while"}
          /\ pc = "gate" => pc' \in {"gate", "decide"}
          /\ pc = "decide" => pc' \in {"while", "finish"}
          /\ ("executor" \notin invoked /\ "executor" \in invoked') => pc = "exec"
          /\ ("replanner" \notin invoked /\ "replanner" \in invoked') => pc = "replan"]_vars

C20_Witness ==
    /\ pc = "gate"
    /\ current_iteration = max_iterations
    /\ edits >= 1
    /\ "executor" \in invoked

RunEnd(s, i) ==
    CHOOSE j \in i..Len(s) :
        /\ \A n \in i..j : IsWordChar(s, n) = IsWordChar(s, i)
        /\ j = Len(s) \/ IsWordChar(s, j + 1) # IsWordChar(s, i)

FullFormOf(w, k) ==
    IF \E r \in 1..k : query_mapping[r].abbr = w
    THEN query_mapping[CHOOSE r \in 1..k : query_mapping[r].abbr = w].full_form
    ELSE w

RECURSIVE ExpandWords(_, _, _)
ExpandWords(s, i, k) ==
    IF i > Len(s) THEN <<>>
    ELSE FullFormOf(SubSeq(s, i, RunEnd(s, i)), k) \o ExpandWords(s, RunEnd(s, i) + 1, k)

(* C18: the expansion acts on whole words only: after the first k rules    *)
(* the query is the lower-cased input with each word that is one of their  *)
(* abbreviations replaced by its full form and every other word as it      *)
(* was; "temperature" stays, "check temp now" becomes "check temperature   *)
(* now".                                                                   *)
C18_WholeWordsOnly ==
    /\ rule >= 1 => processed_query = ExpandWords(Lower(query), 1, rule - 1)
    /\ (Returned /\ query = <<"t","e","m","p","e","r","a","t","u","r","e">>) => processed_query = <<"t","e","m","p","e","r","a","t","u","r","e">>
    /\ (Returned /\ query = <<"c","h","e","c","k"," ","t","e","m","p"," ","n","o","w">>) => processed_query = <<"c","h","e","c","k"," ","t","e","m","p","e","r","a","t","u","r","e"," ","n","o","w">>

C18_Witness ==
    /\ Returned
    /\ query = <<"c","h","e","c","k"," ","t","e","m","p"," ","n","o","w">>
    /\ processed_query = <<"c","h","e","c","k"," ","t","e","m","p","e","r","a","t","u","r","e"," ","n","o","w">>

(* C21: after the human's synthesize directive the flag is set, the loop   *)
(* is left without another pass, the next and only component invoked is    *)
(* the Synthesizer and its response is returned (the fallback text when    *)
(* its update has no response key); plan and past_steps stay as they were, *)
(* so the pending steps are never executed.                                *)
C21_HumanSynthesize ==
    [][("synthesize" \in directives)
         => /\ pc \in {"decide", "while", "finish"}
            /\ UNCHANGED <<plan, past_steps, current_iteration>>
            /\ ~(PlannerStep \/ ExecutorStep \/ ReplanStep \/ GateEntered)
            /\ pc = "decide"
                 => /\ human_decision.action = "synthesize"
                    /\ ready_for_synthesis' /\ response' = "" /\ pc' = "while"
            /\ pc = "while" => ready_for_synthesis /\ pc' = "finish"
            /\ pc = "finish"
                 => /\ "synthesizer" \notin invoked /\ "synthesizer" \in invoked'
                    /\ pc' = "done"
                    /\ response' = IF "response" \in synthesizer_output'.keys
                                   THEN synthesizer_output'.response
                                   ELSE SynthesisError]_vars

C21_Witness ==
    /\ pc = "done"
    /\ "synthesize" \in directives
    /\ plan # <<>>
    /\ "synthesizer" \in invoked
    /\ response = "final answer"

(* The edit lines that hold no step: nothing, or only commas and blanks *)
BlankEditInputs == { <<>>, <<" ", ",", " ">>, <<",", ",">> }

BlankEditApplied ==
    pc = "decide" /\ human_decision.action = "edit" /\ human_decision.new_plan = <<>>

(* The pass that follows a blank edit: counter 0 and nothing to execute;   *)
(* after the Planner the counter is 0 only with a non-empty plan           *)
BlankEditPassStart == EmptyPlanPassStart /\ current_iteration = 0 /\ edits >= 1

BlankEditPassMerge ==
    pc = "merge" /\ ready_for_synthesis /\ current_iteration = 1 /\ edits >= 1

(* The run goes to the Synthesizer and returns what it gives *)
EndsWithSynthesis ==
    /\ (pc = "while" /\ ready_for_synthesis /\ response = "") => pc' = "finish"
    /\ (pc = "finish" /\ ready_for_synthesis /\ response = "")
         => /\ "synthesizer" \in invoked'
            /\ pc' = "done"
            /\ response' \notin {PlannerFailed, Inconclusive}

(* C22 as stated: a blank edit empties the plan and resets the counter;    *)
(* the next pass executes nothing and forces the flag, and the run then    *)
(* ends with the Synthesizer's response unless the Replanner supplies a    *)
(* response in that pass.                                                  *)
C22_Original ==
    /\ \A raw \in BlankEditInputs : raw \in EditInputs /\ ParseNewPlan(raw) = <<>>
    /\ [][/\ BlankEditApplied => (plan' = <<>> /\ current_iteration' = 0)
          /\ BlankEditPassStart
               => /\ ready_for_synthesis' /\ pc' = "replan"
                  /\ UNCHANGED <<plan, past_steps>>
          /\ BlankEditPassMerge
               => \/ response' # ""
                  \/ ready_for_synthesis' /\ pc' = "while" /\ past_steps' = past_steps
          /\ EndsWithSynthesis]_vars

(* C22 amended: as above, but the Replanner is still called in that pass   *)
(* and the run ends with the Synthesizer's response unless its update      *)
(* supplies a response or sets the flag back to false (with no empty plan  *)
(* list); in the latter case the gate is consulted again.                  *)
C22_Amended ==
    /\ \A raw \in BlankEditInputs : raw \in EditInputs /\ ParseNewPlan(raw) = <<>>
    /\ [][/\ BlankEditApplied
               => /\ plan' = <<>> /\ current_iteration' = 0 /\ pc' = "while"
                  /\ UNCHANGED <<past_steps, response, ready_for_synthesis>>
          /\ BlankEditPassStart
               => /\ ready_for_synthesis' /\ pc' = "replan"
                  /\ UNCHANGED <<plan, past_steps>>
          /\ (pc = "replan" /\ ready_for_synthesis /\ current_iteration = 1 /\ edits >= 1)
               => "replanner" \in invoked' /\ pc' = "merge"
          /\ BlankEditPassMerge
               => LET out == replan_output
                      resets == "ready_for_synthesis" \in out.keys /\ ~out.ready_for_synthesis
                      supplied == "response" \in out.keys /\ out.response # ""
                      emptylist == "plan" \in out.keys /\ out.plan = <<>>
                  IN  /\ past_steps' = past_steps
                      /\ IF supplied
                         THEN response' = out.response /\ pc' = "while"
                         ELSE IF resets /\ ~emptylist
                              THEN ~ready_for_synthesis' /\ response' = "" /\ pc' = "gate"
                              ELSE ready_for_synthesis' /\ response' = "" /\ pc' = "while"
          /\ EndsWithSynthesis]_vars

C22_Witness ==
    /\ BlankEditPassMerge
    /\ edits = 1
    /\ plan = <<>>
    /\ "ready_for_synthesis" \in replan_output.keys
    /\ ~replan_output.ready_for_synthesis
    /\ "response" \notin replan_output.keys

====
